---- MODULE Spec2Model ----
(***************************************************************************)
(* Model of server.js: the POST /ask handler, its web-evidence retriever   *)
(* (performWebSearch), the provider invoker (safeCall), the bullet         *)
(* normalizer (cleanBullets) and the conclusion builder (buildConclusion). *)
(*                                                                         *)
(* A JavaScript string is a sequence of one-character strings, so that     *)
(* split, replace, trim, length and join are computed character by         *)
(* character. Opaque fields of an evidence record (title, url, date) and   *)
(* the fixed pieces of a prompt are single multi-character tokens: the     *)
(* code only copies them.                                                  *)
(***************************************************************************)
EXTENDS Integers, Sequences, FiniteSets, TLC

(* ------------------------------------------------------------------ *)
(* Bounds of the model                                                  *)
(* ------------------------------------------------------------------ *)

\* Largest number of organic results the search answers with when the
\* retriever is checked on its own (above TopN, so that a 6th result exists).
MaxResults == 6

\* Largest number of organic results in the whole-request specification.
MaxPages == 2

\* Most lines of a text given to cleanBullets when it is checked on its own.
MaxLines == 3

\* Longest evidence sequence given to buildConclusion when it is checked on
\* its own.
MaxEvidence == 1

(* ------------------------------------------------------------------ *)
(* Program constants                                                    *)
(* ------------------------------------------------------------------ *)

\* results.slice(0, 5): only the first five organic results are fetched.
TopN == 5

\* [...new Set(lines)].slice(0, 5): lines of a conclusion.
ConclusionMax == 5

\* The maxBullets argument of every safeCall.
MaxBullets == 8

\* .filter((l) => l.length > 3)
MinLen == 3

\* article?.textContent?.substring(0, 1000)
ExcerptMax == 1000

\* s.excerpt.substring(0, 500)
ContextExcerptMax == 500

(* ------------------------------------------------------------------ *)
(* JavaScript values                                                    *)
(* ------------------------------------------------------------------ *)

\* undefined / null where a string is expected.
Undefined == <<"<undefined>">>

\* The empty string.
EmptyStr == <<>>

\* x || y on strings: undefined, null and "" are falsy.
Falsy(x) == x \in {Undefined, EmptyStr}

Or2(x, y) == IF Falsy(x) THEN y ELSE x

\* \s of a regular expression, and what trim() removes.
WS == {" ", "\t", "\r", "\n"}

\* The class [*\-#\s] of /^[*\-#\s]+/.
LeadMarkers == {"*", "-", "#"} \cup WS

\* The backquote character (U+0060), which a string literal cannot hold: one
\* token, so one character of a string.
Backquote == "BQ"

\* The class of the second replace, /[...]/g: asterisk, hash, backquote.
InlineMarkers == {"*", "#", Backquote}

Min(a, b) == IF a < b THEN a ELSE b

(* ------------------------------------------------------------------ *)
(* String primitives                                                    *)
(* ------------------------------------------------------------------ *)

\* Array.prototype.slice(0, n) / String.prototype.substring(0, n).
Slice(s, n) == SubSeq(s, 1, Min(Len(s), n))

RECURSIVE DropLeading(_, _)
\* s.replace(/^[C]+/, ""): s without its longest prefix of characters of C.
DropLeading(s, C) ==
  IF s # <<>> /\ Head(s) \in C THEN DropLeading(Tail(s), C) ELSE s

RECURSIVE DropTrailing(_, _)
DropTrailing(s, C) ==
  IF s # <<>> /\ s[Len(s)] \in C
  THEN DropTrailing(SubSeq(s, 1, Len(s) - 1), C)
  ELSE s

\* String.prototype.trim().
Trim(s) == DropTrailing(DropLeading(s, WS), WS)

RECURSIVE RemoveAll(_, _)
\* s.replace(/[C]/g, "").
RemoveAll(s, C) ==
  IF s = <<>> THEN <<>>
  ELSE IF Head(s) \in C THEN RemoveAll(Tail(s), C)
  ELSE <<Head(s)>> \o RemoveAll(Tail(s), C)

RECURSIVE SplitFrom(_, _, _)
\* The lines of s from position i on, cur being the line read so far.
SplitFrom(s, i, cur) ==
  IF i > Len(s) THEN <<cur>>
  ELSE IF s[i] = "\n" THEN <<cur>> \o SplitFrom(s, i + 1, <<>>)
  ELSE SplitFrom(s, i + 1, Append(cur, s[i]))

\* text.split("\n"): "" splits into one empty line.
Split(s) == SplitFrom(s, 1, <<>>)

RECURSIVE Join(_)
\* lines.join("\n"): an empty array joins to "".
Join(ls) ==
  IF ls = <<>> THEN <<>>
  ELSE IF Len(ls) = 1 THEN ls[1]
  ELSE ls[1] \o <<"\n">> \o Join(Tail(ls))

RECURSIVE FilterLong(_)
\* .filter((l) => l.length > 3)
FilterLong(ls) ==
  IF ls = <<>> THEN <<>>
  ELSE IF Len(Head(ls)) > MinLen THEN <<Head(ls)>> \o FilterLong(Tail(ls))
  ELSE FilterLong(Tail(ls))

(* ------------------------------------------------------------------ *)
(* cleanBullets                                                         *)
(* ------------------------------------------------------------------ *)

\* (l) => l.replace(leading markers, "").replace(inline markers, "").trim()
CleanLine(l) == Trim(RemoveAll(DropLeading(l, LeadMarkers), InlineMarkers))

\* (mutant) the slice(0, max) is forgotten.
CleanLinesNoSlice(text, max) ==
  LET ls == Split(text)
  IN FilterLong([i \in 1..Len(ls) |-> CleanLine(ls[i])])

\* The surviving lines: split, map, filter, slice(0, max).
CleanLines(text, max) ==
  LET ls == Split(text)
  IN Slice(FilterLong([i \in 1..Len(ls) |-> CleanLine(ls[i])]), max)

\* The template literal "- ${l}".
Marked(l) == <<"-", " ">> \o l

cleanBullets(text, max) ==
  LET ls == CleanLines(text, max)
  IN Join([i \in 1..Len(ls) |-> Marked(ls[i])])

(* ------------------------------------------------------------------ *)
(* buildConclusion                                                      *)
(* ------------------------------------------------------------------ *)

\* The providers, in the order of the keys of { openai, mistral, claude,
\* gemini }, which is the order of Object.entries(results).
ProviderOrder == <<"openai", "mistral", "claude", "gemini">>

Providers == {ProviderOrder[i] : i \in 1..Len(ProviderOrder)}

\* l.replace(/^-\s*/, ""): one leading dash and the whitespace after it.
DropDash(l) ==
  IF l # <<>> /\ Head(l) = "-" THEN DropLeading(Tail(l), WS) ELSE l

\* text.split("\n").map((l) => l.replace(/^-\s*/, "").trim())
\*     .filter((l) => l.length > 3)
Bullets(text) ==
  LET ls == Split(text)
  IN FilterLong([i \in 1..Len(ls) |-> Trim(DropDash(ls[i]))])

\* The names every object literal {} inherits from Object.prototype: a read
\* citationsMap[b] of one of them that was never assigned yields the
\* inherited member, which is truthy.
ObjectPrototypeKeys ==
  { <<"c","o","n","s","t","r","u","c","t","o","r">>,
    <<"t","o","S","t","r","i","n","g">>,
    <<"v","a","l","u","e","O","f">>,
    <<"h","a","s","O","w","n","P","r","o","p","e","r","t","y">>,
    <<"i","s","P","r","o","t","o","t","y","p","e","O","f">>,
    <<"t","o","L","o","c","a","l","e","S","t","r","i","n","g">>,
    <<"p","r","o","p","e","r","t","y","I","s","E","n","u","m","e","r","a","b","l","e">>,
    <<"_","_","p","r","o","t","o","_","_">>,
    <<"_","_","d","e","f","i","n","e","G","e","t","t","e","r","_","_">>,
    <<"_","_","d","e","f","i","n","e","S","e","t","t","e","r","_","_">>,
    <<"_","_","l","o","o","k","u","p","G","e","t","t","e","r","_","_">>,
    <<"_","_","l","o","o","k","u","p","S","e","t","t","e","r","_","_">> }

\* An inherited member read as a citation: it has no title, url or date.
InheritedMember ==
  [url |-> Undefined, title |-> Undefined, date |-> Undefined,
   excerpt |-> Undefined]

\* const citationsMap = {}
EmptyCitations == [b \in {} |-> InheritedMember]

\* citationsMap[b]: <<v>> when the read yields the truthy value v, <<>> when
\* it yields undefined.
CitationOf(map, b) ==
  IF b \in DOMAIN map THEN <<map[b]>>
  ELSE IF b \in ObjectPrototypeKeys THEN <<InheritedMember>>
  ELSE <<>>

\* (mutant) the first citation recorded for a text is kept.
CitePutFirstWins(map, b, src) ==
  IF b \in DOMAIN map THEN map
  ELSE [x \in DOMAIN map \cup {b} |-> IF x = b THEN src ELSE map[x]]

\* citationsMap[b] = sources[model][i]
CitePut(map, b, src) ==
  [x \in DOMAIN map \cup {b} |-> IF x = b THEN src ELSE map[x]]

\* A property of the sources object: <<>> when it was never assigned
\* (undefined), <<a>> when it holds the array a.
Unassigned == <<>>

Assigned(a) == <<a>>

\* sources[model] && sources[model][i], i counted from 0 in the code and
\* from 1 here.
HasEvidenceAt(src, i) == src # Unassigned /\ i <= Len(src[1])

RECURSIVE CiteBullets(_, _, _, _)
\* bullets.forEach((b, i) => { ... }) from bullet i on.
CiteBullets(map, bullets, src, i) ==
  IF i > Len(bullets) THEN map
  ELSE CiteBullets(
         IF HasEvidenceAt(src, i) THEN CitePut(map, bullets[i], src[1][i])
         ELSE map,
         bullets, src, i + 1)

RECURSIVE EntriesLoop(_, _, _, _)
\* for (const [model, text] of Object.entries(results)) { ... } from entry k
\* on: acc holds lines and citationsMap; an entry is <<model, text>>.
EntriesLoop(acc, entries, sources, k) ==
  IF k > Len(entries) THEN acc
  ELSE LET bullets == Bullets(entries[k][2])
       IN EntriesLoop(
            [lines |-> acc.lines \o bullets,
             map   |-> CiteBullets(acc.map, bullets, sources[entries[k][1]], 1)],
            entries, sources, k + 1)

RECURSIVE SetOrder(_, _)
\* [...new Set(lines)]: the distinct elements in insertion order.
SetOrder(lines, seen) ==
  IF lines = <<>> THEN <<>>
  ELSE IF Head(lines) \in seen THEN SetOrder(Tail(lines), seen)
  ELSE <<Head(lines)>> \o SetOrder(Tail(lines), seen \cup {Head(lines)})

\* (mutant) the slice(0, 5) is forgotten.
UniqueNoSlice(lines) == SetOrder(lines, {})

\* (mutant) the five first lines are taken before the duplicates are removed.
UniqueSliceFirst(lines) == SetOrder(Slice(lines, ConclusionMax), {})

\* const unique = [...new Set(lines)].slice(0, 5)
Unique(lines) == Slice(SetOrder(lines, {}), ConclusionMax)

\* ${x} of a template literal.
Interp(x) == IF x = Undefined THEN <<"undefined">> ELSE x

\* The citation suffix, " [title](url) (date || 'N/A')".
CitationSuffix(c) ==
  <<" ", "[">> \o Interp(c.title) \o <<"]", "(">> \o Interp(c.url)
  \o <<")", " ", "(">> \o Or2(c.date, <<"N/A">>) \o <<")">>

\* The retained lines with the citation each one carries: cit is <<c>> or <<>>.
ConclusionLines(entries, sources) ==
  LET acc == EntriesLoop([lines |-> <<>>, map |-> EmptyCitations],
                         entries, sources, 1)
      unique == Unique(acc.lines)
  IN [k \in 1..Len(unique) |->
        [text |-> unique[k], cit |-> CitationOf(acc.map, unique[k])]]

\* The line of the conclusion: "- " b cit.
ConclusionLine(cl) ==
  Marked(cl.text) \o (IF cl.cit = <<>> THEN <<>> ELSE CitationSuffix(cl.cit[1]))

\* unique.map((b) => ...).join("\n")
RenderConclusion(cls) == Join([k \in 1..Len(cls) |-> ConclusionLine(cls[k])])

buildConclusion(entries, sources) ==
  RenderConclusion(ConclusionLines(entries, sources))

(* ------------------------------------------------------------------ *)
(* bulletPrompt                                                         *)
(* ------------------------------------------------------------------ *)

\* ${count} for the counts the code passes.
Digits == <<"1", "2", "3", "4", "5", "6", "7", "8", "9">>

ContextLabel == "Context from sources: "

\* (mutant) the context block is written whether or not there is a context.
bulletPromptAlwaysContext(q, context, count, analysis) ==
  <<"Answer in ", Digits[count], " short bullet points\n">>
  \o <<ContextLabel>> \o context \o <<"\n", "\n">>
  \o <<"Q: ">> \o q \o <<"\n", "A:">>

\* bulletPrompt(q, context, count, analysis): the prompt as one string.
bulletPrompt(q, context, count, analysis) ==
  <<"Answer in ", Digits[count],
    " short bullet points (max one line each). Include key facts, trends, and cite sources if provided.\n">>
  \o (IF analysis
      THEN <<"Also identify pros/cons, differing viewpoints, or gaps if applicable.\n">>
      ELSE <<>>)
  \o (IF context # <<>> THEN <<ContextLabel>> \o context \o <<"\n", "\n">> ELSE <<>>)
  \o <<"Q: ">> \o q \o <<"\n", "A:">>

\* s => "Source: ${s.title} (${s.url}, ${s.date}): ${s.excerpt.substring(0, 500)}"
ContextLine(s) ==
  <<"Source: ">> \o s.title \o <<" (">> \o s.url \o <<", ">> \o s.date
  \o <<"): ">> \o Slice(s.excerpt, ContextExcerptMax)

\* webSources.map(...).join('\n')
ContextOf(ws) == Join([i \in 1..Len(ws) |-> ContextLine(ws[i])])

(* ------------------------------------------------------------------ *)
(* The web: what the search engine and the pages answer                 *)
(* ------------------------------------------------------------------ *)

\* The link of the organic result ranked k for a query.
LinkOf(q, k) == <<"https://">> \o q \o <<"/", Digits[k]>>

\* The organic result ranked k: odd ranks carry a date, even ranks none.
OrganicResult(q, k) ==
  [link  |-> LinkOf(q, k),
   title |-> <<"Result ", Digits[k]>>,
   date  |-> IF k % 2 = 1 THEN <<"2024-01-0", Digits[k]>> ELSE Undefined]

\* reader.parse() of a page: an article with every field ...
ArticleFull ==
  [title |-> <<"Article">>, publishedTime |-> <<"2023-12-31">>,
   excerpt |-> <<"e","x","c","e","r","p","t">>,
   textContent |-> <<"b","o","d","y"," ","t","e","x","t">>]

\* ... or one with only a body.
ArticleBare ==
  [title |-> EmptyStr, publishedTime |-> Undefined, excerpt |-> Undefined,
   textContent |-> <<"b","o","d","y"," ","t","e","x","t">>]

\* What fetching and parsing a page does: the fetch or the extraction throws,
\* or parse() returns null (article = <<>>) or an article (<<a>>).
PageFails == [ok |-> FALSE, article |-> <<>>]

PageNull == [ok |-> TRUE, article |-> <<>>]

PageOf(a) == [ok |-> TRUE, article |-> <<a>>]

\* The outcomes of a page in the whole-request specification ...
PageOutcomesSmall == {PageFails, PageOf(ArticleFull)}

\* ... and when the retriever is checked on its own.
PageOutcomesFull ==
  {PageFails, PageNull, PageOf(ArticleFull), PageOf(ArticleBare)}

\* The webs with at most maxN organic results, each page of the first TopN
\* behaving as one of outcomes; a page ranked after TopN would be fetched
\* successfully if it were fetched at all. n is the number of organic
\* results (data.organic_results || [] makes a missing list n = 0).
Webs(maxN, outcomes) ==
  {[searchOk |-> FALSE, n |-> 0, pages |-> <<>>]} \cup
  UNION {
    {[searchOk |-> TRUE, n |-> n, pages |-> pg] :
       pg \in {f \in [1..n -> outcomes \cup {PageOf(ArticleFull)}] :
                 /\ \A k \in 1..n : k <= TopN => f[k] \in outcomes
                 /\ \A k \in 1..n : k > TopN => f[k] = PageOf(ArticleFull)}}
    : n \in 0..maxN}

(* ------------------------------------------------------------------ *)
(* performWebSearch: the evidence record of a page                      *)
(* ------------------------------------------------------------------ *)

Or3(x, y, z) == Or2(x, Or2(y, z))

\* article?.f: undefined when the article is null.
ArtField(art, f) == IF art = <<>> THEN Undefined ELSE art[1][f]

\* x?.substring(0, n)
SubstringOpt(x, n) == IF x = Undefined THEN Undefined ELSE Slice(x, n)

\* (mutant) the date prefers the article's date to the search result's.
EvidenceDateArticleFirst(res, art) ==
  Or3(ArtField(art, "publishedTime"), res.date, <<"N/A">>)

\* date: res.date || article?.publishedTime || 'N/A'
EvidenceDate(res, art) ==
  Or3(res.date, ArtField(art, "publishedTime"), <<"N/A">>)

\* title: article?.title || res.title
EvidenceTitle(res, art) == Or2(ArtField(art, "title"), res.title)

\* excerpt: article?.excerpt || article?.textContent?.substring(0, 1000)
\*          || 'No content'
EvidenceExcerpt(art) ==
  Or3(ArtField(art, "excerpt"),
      SubstringOpt(ArtField(art, "textContent"), ExcerptMax),
      <<"No content">>)

\* The record returned for a page that was fetched and parsed.
EvidenceRecord(res, art) ==
  [url |-> res.link, title |-> EvidenceTitle(res, art),
   date |-> EvidenceDate(res, art), excerpt |-> EvidenceExcerpt(art)]

RECURSIVE FilterBoolean(_)
\* extracted.filter(Boolean): null is <<>>, a record r is <<r>>.
FilterBoolean(ex) ==
  IF ex = <<>> THEN <<>>
  ELSE Head(ex) \o FilterBoolean(Tail(ex))

(* ------------------------------------------------------------------ *)
(* safeCall and the request builders                                    *)
(* ------------------------------------------------------------------ *)

\* The name in a provider's fallback string.
DisplayName(p) ==
  CASE p = "openai"  -> <<"O","p","e","n","A","I">>
    [] p = "mistral" -> <<"M","i","s","t","r","a","l">>
    [] p = "claude"  -> <<"C","l","a","u","d","e">>
    [] p = "gemini"  -> <<"G","e","m","i","n","i">>

\* "Error from OpenAI", "Error from Mistral", "Error from Claude",
\* "Error from Gemini": the fallback argument of each safeCall.
Fallback(p) ==
  <<"E","r","r","o","r"," ","f","r","o","m"," ">> \o DisplayName(p)

\* "No response from Gemini"
NoResponseText ==
  <<"N","o"," ","r","e","s","p","o","n","s","e"," ","f","r","o","m"," ">>
  \o DisplayName("gemini")

\* The raw completions a provider answers with in the model.
RawA ==
  <<"*"," ","a","a","a","a","\n",
    "-"," ",Backquote,"b","b","b","b",Backquote,"\n",
    "a","b","\n",
    "#","#"," ","c","c","c","c"," ">>

RawB == <<"b","b","b","b","\n"," "," ","-"," ","d","d","d","d">>

RawTexts == {RawA, RawB, EmptyStr}

\* What a provider exchange does. kind is
\*   "ok":      a 2xx answer holding the text `text`;
\*   "neterr":  the request fails (axios rejects);
\*   "non2xx":  a non-2xx status (axios rejects);
\*   "nopath":  a 2xx body in which the path to the text is missing;
\*   "nontext": a 2xx body whose text is a truthy value that is no string.
Ok(t) == [kind |-> "ok", text |-> t]

Failure(k) == [kind |-> k, text |-> EmptyStr]

FailureKinds == {"neterr", "non2xx", "nopath", "nontext"}

Replies == {Ok(t) : t \in RawTexts} \cup {Failure(k) : k \in FailureKinds}

\* The request builders of the text flow: sources.<p> = webSources is
\* assigned after the exchange and before the body is read;
\* r.data.choices[0].message.content (data.content[0].text,
\* data.candidates[0].content.parts[0].text) throws when the path is
\* missing. threw: the builder throws; isString: what it returns is a string.
TextBuilder(rep) ==
  [threw       |-> rep.kind \in {"neterr", "non2xx", "nopath"},
   setsSources |-> rep.kind \notin {"neterr", "non2xx"},
   isString    |-> rep.kind = "ok",
   raw         |-> rep.text]

\* The request builder of the file flow:
\* data.candidates?.[0]?.content?.parts?.[0]?.text || "No response from Gemini"
FileBuilder(rep) ==
  [threw       |-> rep.kind \in {"neterr", "non2xx"},
   setsSources |-> rep.kind \notin {"neterr", "non2xx"},
   isString    |-> rep.kind \in {"ok", "nopath"},
   raw         |-> IF rep.kind = "ok" THEN Or2(rep.text, NoResponseText)
                   ELSE NoResponseText]

\* (mutant) the catch block is missing its return: the raw text is
\* normalized whether or not the builder threw.
safeCallNoCatch(built, fallback, maxBullets) ==
  cleanBullets(built.raw, maxBullets)

\* safeCall(fn, fallback, name, maxBullets): cleanBullets(raw) when fn
\* returns a string, the fallback when fn throws or when cleanBullets throws
\* on a raw value that has no split method.
safeCall(built, fallback, maxBullets) ==
  IF built.threw \/ ~built.isString THEN fallback
  ELSE cleanBullets(built.raw, maxBullets)

(* ------------------------------------------------------------------ *)
(* The request                                                          *)
(* ------------------------------------------------------------------ *)

VARIABLES
  file,          \* req.file is present
  rawQuestion,   \* req.body.question: <<>> when absent, <<s>> for a string s
  web,           \* what the search and the pages answer (see Webs)
  pc,            \* the handler's state
  query,         \* the query performWebSearch was called with
  rstage,        \* performWebSearch: "none", "search", "pages", "done"
  pending,       \* ranks of the page fetches in flight
  extracted,     \* per fetched rank: <<>> (pending or null), <<record>>
  searchCalls,   \* search requests issued
  fetchCalls,    \* page requests issued, per rank
  webSources,    \* what performWebSearch returned
  call,          \* per provider: "idle", "inflight", "done"
  reply,         \* per provider: what its exchange does (see Replies)
  request,       \* per provider: the request sent
  providerCalls, \* provider requests issued, per provider
  results,       \* per provider: what its safeCall returned
  sources,       \* the handler's sources object, per provider key
  conclusion,    \* the conclusion built
  response,      \* the response sent
  responses,     \* responses sent
  arg,           \* the argument of a function checked on its own
  out            \* its result

vars ==
  <<file, rawQuestion, web, pc, query, rstage, pending, extracted,
    searchCalls, fetchCalls, webSources, call, reply, request,
    providerCalls, results, sources, conclusion, response, responses,
    arg, out>>

inputVars == <<file, rawQuestion, web>>

retrieverVars ==
  <<query, rstage, pending, extracted, searchCalls, fetchCalls, webSources>>

providerVars == <<call, reply, request, providerCalls, results, sources>>

responseVars == <<conclusion, response, responses>>

pureVars == <<arg, out>>

\* "Describe the uploaded file."
DefaultFileQuery == <<"Describe the uploaded file.">>

\* The questions of the model: absent, "", " ", " q? ".
Questions == {<<>>, <<EmptyStr>>, <<<<" ">>>>, <<<<" ", "q", "?", " ">>>>}

\* (mutant) the question is not trimmed.
QuestionOfNoTrim(raw) == IF raw = <<>> THEN EmptyStr ELSE raw[1]

\* req.body.question?.trim?.() || ""
QuestionOf(raw) == IF raw = <<>> THEN EmptyStr ELSE Trim(raw[1])

question == QuestionOf(rawQuestion)

\* (mutant) the default query is forgotten.
fileQueryNoDefault == question

\* const fileQuery = question || "Describe the uploaded file."
fileQuery == Or2(question, DefaultFileQuery)

NoRequest == [prompt |-> EmptyStr, inlineData |-> FALSE]

NoReply == [kind |-> "none", text |-> EmptyStr]

NoResponse ==
  [status |-> 0, results |-> <<>>, conclusion |-> EmptyStr, sources |-> <<>>,
   error |-> EmptyStr]

NoArg == [f |-> "none"]

NoOut == [done |-> FALSE, text |-> EmptyStr, lines |-> <<>>]

\* The state of the handler before a request, for an input and a web.
InitRequest(f, rq, w) ==
  /\ file = f
  /\ rawQuestion = rq
  /\ web = w
  /\ pc = "Idle"
  /\ query = EmptyStr
  /\ rstage = "none"
  /\ pending = {}
  /\ extracted = <<>>
  /\ searchCalls = 0
  /\ fetchCalls = [k \in 1..w.n |-> 0]
  /\ webSources = <<>>
  /\ call = [p \in Providers |-> "idle"]
  /\ reply = [p \in Providers |-> NoReply]
  /\ request = [p \in Providers |-> NoRequest]
  /\ providerCalls = [p \in Providers |-> 0]
  /\ results = [p \in Providers |-> EmptyStr]
  /\ sources = [p \in Providers |-> Unassigned]
  /\ conclusion = EmptyStr
  /\ response = NoResponse
  /\ responses = 0

Init ==
  /\ \E f \in BOOLEAN, rq \in Questions, w \in Webs(MaxPages, PageOutcomesSmall) :
       InitRequest(f, rq, w)
  /\ arg = NoArg
  /\ out = NoOut

\* performWebSearch(q) is called: the search request is issued.
CallRetriever(q) ==
  /\ query' = q
  /\ searchCalls' = searchCalls + 1
  /\ rstage' = "search"
  /\ pc' = "Retrieving"
  /\ UNCHANGED <<pending, extracted, fetchCalls, webSources>>

\* File flow: if (req.file) { ... performWebSearch(fileQuery) }
ReceiveFile ==
  /\ pc = "Idle"
  /\ file
  /\ CallRetriever(fileQuery)
  /\ UNCHANGED <<inputVars, providerVars, responseVars, pureVars>>

\* (mutant) the validation error is sent without returning: the text flow
\* goes on.
RejectEmptyNoReturn ==
  /\ pc = "Idle"
  /\ ~file
  /\ question = EmptyStr
  /\ response' = [NoResponse EXCEPT !.status = 400,
                                    !.error = <<"Question cannot be empty">>]
  /\ responses' = responses + 1
  /\ CallRetriever(question)
  /\ UNCHANGED <<inputVars, providerVars, conclusion, pureVars>>

\* if (!question) return res.status(400).json({ error: ... })
RejectEmpty ==
  /\ pc = "Idle"
  /\ ~file
  /\ question = EmptyStr
  /\ response' = [NoResponse EXCEPT !.status = 400,
                                    !.error = <<"Question cannot be empty">>]
  /\ responses' = responses + 1
  /\ pc' = "Responded"
  /\ UNCHANGED <<inputVars, retrieverVars, providerVars, conclusion, pureVars>>

\* Text flow: performWebSearch(question)
ReceiveText ==
  /\ pc = "Idle"
  /\ ~file
  /\ question # EmptyStr
  /\ CallRetriever(question)
  /\ UNCHANGED <<inputVars, providerVars, responseVars, pureVars>>

\* The search request fails: catch (err) { return [] }
SearchFails ==
  /\ pc = "Retrieving"
  /\ rstage = "search"
  /\ ~web.searchOk
  /\ webSources' = <<>>
  /\ rstage' = "done"
  /\ pc' = "Prompting"
  /\ UNCHANGED <<inputVars, query, pending, extracted, searchCalls,
                 fetchCalls, providerVars, responseVars, pureVars>>

\* (mutant) every organic result is processed.
TopCountAll(n) == n

\* results.slice(0, 5).length for n organic results.
TopCount(n) == Min(n, TopN)

\* The search answers: the first five results are fetched, all at once.
SearchReturns ==
  /\ pc = "Retrieving"
  /\ rstage = "search"
  /\ web.searchOk
  /\ LET m == TopCount(web.n)
     IN /\ pending' = 1..m
        /\ extracted' = [k \in 1..m |-> <<>>]
        /\ fetchCalls' = [k \in 1..web.n |->
                            IF k <= m THEN fetchCalls[k] + 1 ELSE fetchCalls[k]]
  /\ rstage' = "pages"
  /\ UNCHANGED <<inputVars, pc, query, searchCalls, webSources, providerVars,
                 responseVars, pureVars>>

\* What the mapper of rank k returns: null when the fetch or the extraction
\* throws, the evidence record otherwise.
Extract(k) ==
  IF web.pages[k].ok
  THEN <<EvidenceRecord(OrganicResult(query, k), web.pages[k].article)>>
  ELSE <<>>

\* (mutant) the records are kept in the order in which the fetches complete.
PageReturnCompletionOrder(k) ==
  /\ pc = "Retrieving"
  /\ rstage = "pages"
  /\ k \in pending
  /\ pending' = pending \ {k}
  /\ extracted' = [extracted EXCEPT
                     ![Len(extracted) - Cardinality(pending) + 1] = Extract(k)]
  /\ UNCHANGED <<inputVars, pc, query, rstage, searchCalls, fetchCalls,
                 webSources, providerVars, responseVars, pureVars>>

\* The page fetch of rank k completes (in any order).
PageReturn(k) ==
  /\ pc = "Retrieving"
  /\ rstage = "pages"
  /\ k \in pending
  /\ pending' = pending \ {k}
  /\ extracted' = [extracted EXCEPT ![k] = Extract(k)]
  /\ UNCHANGED <<inputVars, pc, query, rstage, searchCalls, fetchCalls,
                 webSources, providerVars, responseVars, pureVars>>

\* Promise.all resolved: return extracted.filter(Boolean)
RetrieverReturns ==
  /\ pc = "Retrieving"
  /\ rstage = "pages"
  /\ pending = {}
  /\ webSources' = FilterBoolean(extracted)
  /\ rstage' = "done"
  /\ pc' = "Prompting"
  /\ UNCHANGED <<inputVars, query, pending, extracted, searchCalls,
                 fetchCalls, providerVars, responseVars, pureVars>>

\* The providers the text flow starts together in Promise.all.
FirstWave == {"openai", "mistral", "claude"}

\* The request of a provider: the prompt and, in the file flow, the file.
RequestOf(q, inline) ==
  [prompt |-> bulletPrompt(q, ContextOf(webSources), MaxBullets, TRUE),
   inlineData |-> inline]

\* (mutant) a request that fails is sent a second time.
IssueWithRetry(P, rep, q, inline) ==
  /\ call' = [p \in Providers |-> IF p \in P THEN "inflight" ELSE call[p]]
  /\ reply' = [p \in Providers |-> IF p \in P THEN rep[p] ELSE reply[p]]
  /\ request' = [p \in Providers |->
                   IF p \in P THEN RequestOf(q, inline) ELSE request[p]]
  /\ providerCalls' = [p \in Providers |->
                         IF p \in P
                         THEN providerCalls[p]
                              + (IF rep[p].kind \in {"neterr", "non2xx"}
                                 THEN 2 ELSE 1)
                         ELSE providerCalls[p]]

\* The requests of the providers of P are issued; the exchange of each will
\* do what rep says.
Issue(P, rep, q, inline) ==
  /\ call' = [p \in Providers |-> IF p \in P THEN "inflight" ELSE call[p]]
  /\ reply' = [p \in Providers |-> IF p \in P THEN rep[p] ELSE reply[p]]
  /\ request' = [p \in Providers |->
                   IF p \in P THEN RequestOf(q, inline) ELSE request[p]]
  /\ providerCalls' = [p \in Providers |->
                         IF p \in P THEN providerCalls[p] + 1
                         ELSE providerCalls[p]]

\* File flow: the one safeCall, to gemini, with the file inline.
InvokeFile ==
  /\ pc = "Prompting"
  /\ file
  /\ \E r \in Replies :
       Issue({"gemini"}, [p \in Providers |-> r], fileQuery, TRUE)
  /\ pc' = "Invoking"
  /\ UNCHANGED <<inputVars, retrieverVars, results, sources, responseVars,
                 pureVars>>

\* Text flow: Promise.all([safeCall(openai), safeCall(mistral),
\* safeCall(claude)]) issues the three requests.
InvokeText ==
  /\ pc = "Prompting"
  /\ ~file
  /\ \E rep \in [FirstWave -> Replies] :
       Issue(FirstWave,
             [p \in Providers |-> IF p \in FirstWave THEN rep[p] ELSE NoReply],
             question, FALSE)
  /\ pc' = "Invoking"
  /\ UNCHANGED <<inputVars, retrieverVars, results, sources, responseVars,
                 pureVars>>

\* (mutant) the Promise.all of the first three calls is not awaited.
InvokeGeminiNoAwait ==
  /\ pc = "Invoking"
  /\ ~file
  /\ call["gemini"] = "idle"
  /\ \E r \in Replies :
       Issue({"gemini"}, [p \in Providers |-> r], question, FALSE)
  /\ UNCHANGED <<inputVars, pc, retrieverVars, results, sources, responseVars,
                 pureVars>>

\* Text flow: after the await of Promise.all, the safeCall to gemini.
InvokeGemini ==
  /\ pc = "Invoking"
  /\ ~file
  /\ \A p \in FirstWave : call[p] = "done"
  /\ call["gemini"] = "idle"
  /\ \E r \in Replies :
       Issue({"gemini"}, [p \in Providers |-> r], question, FALSE)
  /\ UNCHANGED <<inputVars, pc, retrieverVars, results, sources, responseVars,
                 pureVars>>

\* What the request builder of the flow does with the exchange's outcome.
Built(rep) == IF file THEN FileBuilder(rep) ELSE TextBuilder(rep)

\* The exchange of provider p completes and its safeCall returns.
ProviderReturn(p) ==
  /\ pc = "Invoking"
  /\ call[p] = "inflight"
  /\ LET b == Built(reply[p])
     IN /\ sources' = IF b.setsSources
                      THEN [sources EXCEPT ![p] = Assigned(webSources)]
                      ELSE sources
        /\ results' = [results EXCEPT ![p] = safeCall(b, Fallback(p), MaxBullets)]
  /\ call' = [call EXCEPT ![p] = "done"]
  /\ UNCHANGED <<inputVars, pc, retrieverVars, reply, request, providerCalls,
                 responseVars, pureVars>>

\* The keys of results, in order: { gemini } in the file flow,
\* { openai, mistral, claude, gemini } in the text flow.
ResultKeys == IF file THEN <<"gemini">> ELSE ProviderOrder

\* Object.entries(results)
ResultEntries == [i \in 1..Len(ResultKeys) |-> <<ResultKeys[i], results[ResultKeys[i]]>>]

\* (mutant) the safeCall to gemini is not awaited.
AggregateNoAwait ==
  /\ pc = "Invoking"
  /\ call["gemini"] # "idle"
  /\ conclusion' = buildConclusion(ResultEntries, sources)
  /\ pc' = "Aggregating"
  /\ UNCHANGED <<inputVars, retrieverVars, providerVars, response, responses,
                 pureVars>>

\* buildConclusion(results, sources), once the last safeCall has returned.
Aggregate ==
  /\ pc = "Invoking"
  /\ call["gemini"] = "done"
  /\ conclusion' = buildConclusion(ResultEntries, sources)
  /\ pc' = "Aggregating"
  /\ UNCHANGED <<inputVars, retrieverVars, providerVars, response, responses,
                 pureVars>>

\* res.json({ results, conclusion, sources: webSources })
Respond ==
  /\ pc = "Aggregating"
  /\ response' = [status |-> 200, results |-> ResultEntries,
                  conclusion |-> conclusion, sources |-> webSources,
                  error |-> EmptyStr]
  /\ responses' = responses + 1
  /\ pc' = "Responded"
  /\ UNCHANGED <<inputVars, retrieverVars, providerVars, conclusion, pureVars>>

Next ==
  \/ ReceiveFile
  \/ RejectEmpty
  \/ ReceiveText
  \/ SearchFails
  \/ SearchReturns
  \/ \E k \in 1..TopN : PageReturn(k)
  \/ RetrieverReturns
  \/ InvokeFile
  \/ InvokeText
  \/ InvokeGemini
  \/ \E p \in Providers : ProviderReturn(p)
  \/ Aggregate
  \/ Respond

\* The whole request, one web of at most MaxPages results.
Spec == Init /\ [][Next]_vars

(* ------------------------------------------------------------------ *)
(* performWebSearch on its own                                          *)
(* ------------------------------------------------------------------ *)

\* A request of the text flow on any web of at most MaxResults results, each
\* page parsed in any of the ways of PageOutcomesFull.
InitRetriever ==
  /\ \E w \in Webs(MaxResults, PageOutcomesFull) :
       InitRequest(FALSE, <<<<" ", "q", "?", " ">>>>, w)
  /\ arg = NoArg
  /\ out = NoOut

\* The handler up to the return of performWebSearch.
NextRetriever ==
  \/ ReceiveText
  \/ SearchFails
  \/ SearchReturns
  \/ \E k \in 1..TopN : PageReturn(k)
  \/ RetrieverReturns

SpecRetriever == InitRetriever /\ [][NextRetriever]_vars

(* ------------------------------------------------------------------ *)
(* buildConclusion on its own                                           *)
(* ------------------------------------------------------------------ *)

\* Result texts given to buildConclusion, each with the bullets it holds:
\* two normalized texts that share a bullet, the empty text, and a text with
\* an unmarked line (a fallback string), a bullet named like a member of
\* Object.prototype, a bullet with spaces around it and a line too short to
\* be a bullet. Together they hold seven distinct bullets.
TextOfBullets(bs) == Join([i \in 1..Len(bs) |-> <<"-", " ">> \o bs[i]])

Ba == <<"a","a","a","a">>

Bb == <<"b","b","b","b">>

Bc == <<"c","c","c","c">>

Bd == <<"d","d","d","d">>

Be == <<"e","e","e","e">>

Bconstructor == <<"c","o","n","s","t","r","u","c","t","o","r">>

Berror == <<"E","r","r","o","r"," ","f","r","o","m"," ","C","l","a","u","d","e">>

MixedText ==
  Berror \o <<"\n", "-", " ">> \o Bconstructor
  \o <<"\n", "-", " ", " ", " ">> \o Bd \o <<" ", "\n", "-", " ", "a", "b">>

ResultSamples ==
  { [text |-> TextOfBullets(<<Ba, Bb, Bc>>), bullets |-> <<Ba, Bb, Bc>>],
    [text |-> TextOfBullets(<<Bb, Bd, Be>>), bullets |-> <<Bb, Bd, Be>>],
    [text |-> EmptyStr, bullets |-> <<>>],
    [text |-> MixedText, bullets |-> <<Berror, Bconstructor, Bd>>] }

\* The i-th evidence record given for provider p: each one is different, so
\* that a citation tells which provider and which index it came from. The
\* records of mistral have no date.
EvidenceOf(p, i) ==
  [url |-> <<"https://", p, "/", Digits[i]>>,
   title |-> <<"Title ", p, " ", Digits[i]>>,
   date |-> IF p = "mistral" THEN Undefined ELSE <<"2024-02-0", Digits[i]>>,
   excerpt |-> <<"e","x","c","e","r","p","t">>]

\* sources[p]: never assigned, or an array of 0..MaxEvidence records.
SourceChoices(p) ==
  {Unassigned} \cup
  {Assigned([i \in 1..n |-> EvidenceOf(p, i)]) : n \in 0..MaxEvidence}

InitConclusion ==
  /\ InitRequest(FALSE, <<>>, [searchOk |-> FALSE, n |-> 0, pages |-> <<>>])
  /\ \E smp \in [Providers -> ResultSamples] :
     \E src \in {f \in [Providers -> UNION {SourceChoices(p) : p \in Providers}] :
                   \A p \in Providers : f[p] \in SourceChoices(p)} :
       arg = [f |-> "buildConclusion",
              entries |-> [i \in 1..Len(ProviderOrder) |->
                             <<ProviderOrder[i], smp[ProviderOrder[i]].text>>],
              sources |-> src,
              bullets |-> [q \in Providers |-> smp[q].bullets]]
  /\ out = NoOut

\* buildConclusion(results, sources) is applied to the argument.
ApplyBuildConclusion ==
  /\ arg.f = "buildConclusion"
  /\ ~out.done
  /\ LET cls == ConclusionLines(arg.entries, arg.sources)
     IN out' = [done |-> TRUE, text |-> RenderConclusion(cls), lines |-> cls]
  /\ UNCHANGED <<inputVars, pc, retrieverVars, providerVars, responseVars, arg>>

NextConclusion == ApplyBuildConclusion

SpecConclusion == InitConclusion /\ [][NextConclusion]_vars

(* ------------------------------------------------------------------ *)
(* cleanBullets on its own                                              *)
(* ------------------------------------------------------------------ *)

\* Lines given to cleanBullets, each with what is to be kept of it (<<>>
\* when the line is to be dropped): a plain line, a dashed line, a starred
\* line too short to keep, a line whose dash stands behind a backquote, a
\* heading with a trailing space, the empty line, a line that inline
\* asterisks make too short, and an indented line with inline asterisks.
LineSamples ==
  { [line |-> <<"a","a","a","a">>, kept |-> << <<"a","a","a","a">> >>],
    [line |-> <<"-"," ","b","b","b","b">>, kept |-> << <<"b","b","b","b">> >>],
    [line |-> <<"*"," ","c","c">>, kept |-> <<>>],
    [line |-> <<Backquote,"-"," ","d","d","d","d">>,
     kept |-> << <<"-"," ","d","d","d","d">> >>],
    [line |-> <<"#","#"," ","e","e","e","e"," ">>,
     kept |-> << <<"e","e","e","e">> >>],
    [line |-> <<>>, kept |-> <<>>],
    [line |-> <<"a","*","b","*","c">>, kept |-> <<>>],
    [line |-> <<" "," ","-"," ","*","f","f","*","g","g">>,
     kept |-> << <<"f","f","g","g">> >>] }

\* The values of max: 0 to MaxLines, and the 8 the handler passes.
Maxes == 0..MaxLines \cup {MaxBullets}

\* A text of 0 to MaxLines lines of LineSamples and a max. pass counts the
\* applications of cleanBullets.
InitNormalizer ==
  /\ InitRequest(FALSE, <<>>, [searchOk |-> FALSE, n |-> 0, pages |-> <<>>])
  /\ \E n \in 0..MaxLines :
     \E smp \in [1..n -> LineSamples] :
     \E max \in Maxes :
       arg = [f |-> "cleanBullets",
              samples |-> smp,
              text |-> Join([i \in 1..n |-> smp[i].line]),
              max |-> max,
              pass |-> 0]
  /\ out = NoOut

\* cleanBullets(text, max) of a text, with the lines it kept.
Normalized(text, max) ==
  LET ls == CleanLines(text, max)
  IN [done |-> TRUE,
      text |-> Join([i \in 1..Len(ls) |-> Marked(ls[i])]),
      lines |-> ls]

\* cleanBullets(text, max) is applied to the argument.
ApplyCleanBullets ==
  /\ arg.f = "cleanBullets"
  /\ arg.pass = 0
  /\ out' = Normalized(arg.text, arg.max)
  /\ arg' = [arg EXCEPT !.pass = 1]
  /\ UNCHANGED <<inputVars, pc, retrieverVars, providerVars, responseVars>>

\* cleanBullets is applied, with the same max, to what it returned.
ReapplyCleanBullets ==
  /\ arg.f = "cleanBullets"
  /\ arg.pass = 1
  /\ out' = Normalized(out.text, arg.max)
  /\ arg' = [arg EXCEPT !.text = out.text, !.pass = 2]
  /\ UNCHANGED <<inputVars, pc, retrieverVars, providerVars, responseVars>>

NextNormalizer == ApplyCleanBullets \/ ReapplyCleanBullets

SpecNormalizer == InitNormalizer /\ [][NextNormalizer]_vars

(* ------------------------------------------------------------------ *)
(* Fairness                                                             *)
(* ------------------------------------------------------------------ *)

\* The control state: every step of Next changes it.
Control == <<pc, rstage, pending, call>>

\* The steps of ProviderReturn(p) and of Aggregate, told by their guard and
\* by what they do to the control state: the form in which their fairness
\* is stated, so that ENABLED does not run the string functions.
ProviderReturnStep(p) ==
  /\ pc = "Invoking"
  /\ call[p] = "inflight"
  /\ call' = [call EXCEPT ![p] = "done"]
  /\ UNCHANGED <<pc, rstage, pending>>

AggregateStep ==
  /\ pc = "Invoking"
  /\ call["gemini"] = "done"
  /\ pc' = "Aggregating"
  /\ UNCHANGED <<rstage, pending, call>>

\* The steps the handler takes by itself once it can: the event loop runs
\* every continuation that is ready.
HandlerStep ==
  \/ ReceiveFile
  \/ RejectEmpty
  \/ ReceiveText
  \/ RetrieverReturns
  \/ InvokeFile
  \/ InvokeText
  \/ InvokeGemini
  \/ Respond

\* The same request, where every continuation that is ready runs and every
\* external call (the search, a page fetch, a provider exchange) eventually
\* returns or fails.
FairSpec ==
  /\ Spec
  /\ WF_vars(HandlerStep)
  /\ WF_Control(AggregateStep)
  /\ WF_vars(SearchFails \/ SearchReturns)
  /\ \A k \in 1..TopN : WF_vars(PageReturn(k))
  /\ \A p \in Providers : WF_Control(ProviderReturnStep(p))

\* The same request, where every continuation that is ready runs and the
\* search and the page fetches eventually return or fail, but a provider
\* exchange may never return (no timeout is set on the provider requests).
HangSpec ==
  /\ Spec
  /\ WF_vars(HandlerStep)
  /\ WF_Control(AggregateStep)
  /\ WF_vars(SearchFails \/ SearchReturns)
  /\ \A k \in 1..TopN : WF_vars(PageReturn(k))

(* ------------------------------------------------------------------ *)
(* What the claims speak of                                             *)
(* ------------------------------------------------------------------ *)

\* The fallback strings, written out.
FallbackText(p) ==
  CASE p = "openai" ->
         <<"E","r","r","o","r"," ","f","r","o","m"," ","O","p","e","n","A","I">>
    [] p = "mistral" ->
         <<"E","r","r","o","r"," ","f","r","o","m"," ","M","i","s","t","r","a","l">>
    [] p = "claude" ->
         <<"E","r","r","o","r"," ","f","r","o","m"," ","C","l","a","u","d","e">>
    [] p = "gemini" ->
         <<"E","r","r","o","r"," ","f","r","o","m"," ","G","e","m","i","n","i">>

\* The normalized bullet text of each raw completion of the model, written
\* out: RawA loses its markers, its backquotes and its short line.
NormalizedText(raw) ==
  CASE raw = RawA ->
         <<"-"," ","a","a","a","a","\n","-"," ","b","b","b","b","\n",
           "-"," ","c","c","c","c">>
    [] raw = RawB -> <<"-"," ","b","b","b","b","\n","-"," ","d","d","d","d">>
    [] raw = EmptyStr -> <<>>

\* The bullets of each normalized text, written out.
NormalizedBullets(raw) ==
  CASE raw = RawA ->
         << <<"a","a","a","a">>, <<"b","b","b","b">>, <<"c","c","c","c">> >>
    [] raw = RawB -> << <<"b","b","b","b">>, <<"d","d","d","d">> >>
    [] raw = EmptyStr -> <<>>

\* "- No response from Gemini"
NoResponseBullet ==
  <<"-"," ","N","o"," ","r","e","s","p","o","n","s","e"," ","f","r","o","m",
    " ","G","e","m","i","n","i">>

\* The question is absent, empty or only whitespace.
BlankQuestion ==
  \/ rawQuestion = <<>>
  \/ \A i \in 1..Len(rawQuestion[1]) : rawQuestion[1][i] \in {" ", "\t", "\n", "\r"}

TextMode == ~file /\ ~BlankQuestion

Range(seq) == {seq[i] : i \in 1..Len(seq)}

\* The keys of a results object, in order.
KeysOf(entries) == [i \in 1..Len(entries) |-> entries[i][1]]

\* The provider's call failed: network error, non-2xx or malformed body.
Failed(p) == reply[p].kind \in {"neterr", "non2xx", "nopath", "nontext"}

Succeeded(p) == reply[p].kind = "ok"

\* C1: in text mode with a non-empty question, whatever subset of the four
\* providers fails, the response is a success whose results has exactly the
\* keys openai, mistral, claude, gemini; a failed provider's entry is its
\* fallback string and a succeeding provider's entry is the normalized
\* bullet text of its own raw output.
C1_ProviderIsolation ==
  (pc = "Responded" /\ TextMode) =>
    /\ response.status = 200
    /\ KeysOf(response.results) = <<"openai", "mistral", "claude", "gemini">>
    /\ \A i \in 1..Len(response.results) :
         LET p == response.results[i][1]
             text == response.results[i][2]
         IN /\ Failed(p) => text = FallbackText(p)
            /\ Succeeded(p) => text = NormalizedText(reply[p].text)

\* A response of the text flow in which two providers failed in two ways and
\* the two others answered.
C1_Witness ==
  /\ pc = "Responded"
  /\ TextMode
  /\ reply["openai"] = Ok(RawA)
  /\ reply["mistral"].kind = "neterr"
  /\ reply["claude"].kind = "nopath"
  /\ reply["gemini"] = Ok(RawB)

\* C2: with no file and a question that is absent, empty or only whitespace
\* the request ends in the client error "Question cannot be empty", and no
\* search request, page fetch or provider request is ever issued.
C2_EmptyQuestionRejected ==
  (~file /\ BlankQuestion) =>
    /\ pc \in {"Idle", "Responded"}
    /\ pc = "Responded" =>
         /\ response.status = 400
         /\ response.error = <<"Question cannot be empty">>
         /\ responses = 1
    /\ searchCalls = 0
    /\ \A k \in DOMAIN fetchCalls : fetchCalls[k] = 0
    /\ \A p \in Providers : providerCalls[p] = 0

\* The validation error sent for a question of one space.
C2_Witness ==
  /\ pc = "Responded"
  /\ ~file
  /\ rawQuestion = <<<<" ">>>>
  /\ response.status = 400

\* C3: every request reaches Responded and exactly one response is sent,
\* whatever fails (the search, pages, providers, provider bodies), in the
\* file flow and in the text flow; no step is taken after Responded.
C3_RespondedExactlyOnce ==
  /\ <>(pc = "Responded")
  /\ [](responses <= 1)
  /\ [](pc = "Responded" <=> responses = 1)
  /\ [][pc # "Responded"]_vars

\* A response of the file flow sent after the search failed and the
\* provider's call failed.
C3_Witness ==
  /\ pc = "Responded"
  /\ responses = 1
  /\ file
  /\ ~web.searchOk
  /\ Failed("gemini")

\* The lines of a conclusion string.
LinesOfConclusion(c) == IF c = <<>> THEN <<>> ELSE Split(c)

\* The line l of a conclusion is the bullet b, with or without a citation.
IsLineOf(l, b) ==
  /\ Len(l) >= Len(b) + 2
  /\ SubSeq(l, 1, Len(b) + 2) = <<"-", " ">> \o b

\* C4 (as claimed): a provider failure shows only as the fallback string in
\* that provider's entry of results; a failed provider contributes no
\* bullet to the conclusion, and when every provider call of the request
\* failed the conclusion is the empty string.
C4_FailedProviderAddsNoBullet ==
  (pc = "Responded" /\ response.status = 200) =>
    /\ \A p \in Range(KeysOf(response.results)) :
         Failed(p) =>
           \A l \in Range(LinesOfConclusion(response.conclusion)) :
             ~IsLineOf(l, FallbackText(p))
    /\ (\A p \in Range(KeysOf(response.results)) : Failed(p))
         => response.conclusion = <<>>

\* C9: when the search request fails the retriever returns the empty
\* sequence and the request goes on: in the text flow each of the four
\* providers is invoked, with a prompt that has no context block, and the
\* response is a success whose sources is empty.
C9_SearchFailureProceeds ==
  ~web.searchOk =>
    /\ rstage = "done" => (webSources = <<>> /\ pc # "Retrieving")
    /\ \A p \in Providers :
         call[p] # "idle" =>
           /\ "Context from sources: " \notin Range(request[p].prompt)
           /\ "Q: " \in Range(request[p].prompt)
    /\ (pc = "Responded" /\ ~(~file /\ BlankQuestion)) =>
         /\ response.status = 200
         /\ response.sources = <<>>
         /\ ~file => \A p \in Providers : providerCalls[p] = 1

\* A success response of the text flow after a failed search.
C9_Witness ==
  /\ pc = "Responded"
  /\ TextMode
  /\ ~web.searchOk
  /\ response.status = 200
  /\ \A p \in Providers : call[p] = "done"

\* C10 (as claimed): in both flows, a provider invocation whose exchange
\* fails by a network error, a non-2xx status or a malformed body returns
\* the provider's fallback string.
C10_FailureYieldsFallback ==
  \A p \in Providers :
    (call[p] = "done" /\ Failed(p)) => results[p] = FallbackText(p)

\* C10 (amended): the fallback is returned for every failure of the text
\* flow and, in the file flow, for a network error, a non-2xx status and a
\* body whose text is no string; a body of the file flow in which the text
\* is missing yields the normalized bullet "- No response from Gemini".
C10_FailureYieldsFallbackAmended ==
  \A p \in Providers :
    (call[p] = "done" /\ Failed(p)) =>
      IF file /\ reply[p].kind = "nopath"
      THEN results[p] = NoResponseBullet
      ELSE results[p] = FallbackText(p)

\* A call of the file flow that ended on a non-2xx status, and the request
\* answered.
C10_Witness ==
  /\ pc = "Responded"
  /\ file
  /\ reply["gemini"].kind = "non2xx"
  /\ call["gemini"] = "done"


\* ProviderReturnStep and AggregateStep are the steps they stand for.
StepsAgree ==
  [][/\ \A p \in Providers : ProviderReturn(p) <=> ProviderReturnStep(p)
     /\ Aggregate <=> AggregateStep]_vars

\* The bullets of all providers, in provider order and then in the order of
\* each provider, as they were given when the argument was made.
GivenBullets ==
  arg.bullets["openai"] \o arg.bullets["mistral"] \o arg.bullets["claude"]
  \o arg.bullets["gemini"]

\* The texts of the lines of the conclusion built.
BuiltTexts == [k \in 1..Len(out.lines) |-> out.lines[k].text]

\* C5: whatever the result texts and the sources, the conclusion built has
\* at most 5 lines, and no two of its lines have the same text before the
\* citation suffix.
C5_AtMostFiveDistinctLines ==
  out.done =>
    /\ Len(out.lines) <= 5
    /\ \A i, j \in 1..Len(out.lines) :
         i # j => out.lines[i].text # out.lines[j].text
    /\ LET ls == LinesOfConclusion(out.text)
       IN /\ Len(ls) = Len(out.lines)
          /\ \A k \in 1..Len(ls) :
               /\ Len(ls[k]) >= Len(out.lines[k].text) + 2
               /\ SubSeq(ls[k], 1, Len(out.lines[k].text) + 2)
                    = <<"-", " ">> \o out.lines[k].text

\* A conclusion of five lines built from more than five distinct bullets,
\* one of which was given twice.
C5_Witness ==
  /\ out.done
  /\ Len(out.lines) = 5
  /\ Cardinality(Range(GivenBullets)) > 5
  /\ Len(GivenBullets) > Cardinality(Range(GivenBullets))

\* The place of the first occurrence of x in seq.
FirstAt(seq, x) ==
  CHOOSE i \in 1..Len(seq) : seq[i] = x /\ \A j \in 1..(i - 1) : seq[j] # x

\* c is made of the first n distinct elements of seq, each at the place of
\* its first occurrence.
IsFirstDistinct(c, seq, n) ==
  /\ Len(c) = Min(n, Cardinality(Range(seq)))
  /\ \A k \in 1..Len(c) : c[k] \in Range(seq)
  /\ \A k \in 1..(Len(c) - 1) : FirstAt(seq, c[k]) < FirstAt(seq, c[k + 1])
  /\ \A x \in Range(seq) \ Range(c) :
       \A k \in 1..Len(c) : FirstAt(seq, c[k]) < FirstAt(seq, x)

\* C6: the lines of the conclusion are the first 5 distinct bullet texts of
\* the concatenation of the providers' bullets, in provider order (openai,
\* mistral, claude, gemini) and then in the order of each provider, each
\* text at the place of its first occurrence.
C6_FirstFiveDistinctInOrder ==
  out.done => IsFirstDistinct(BuiltTexts, GivenBullets, 5)

\* A conclusion cut to five lines in which a bullet given twice among the
\* first five bullets stands once.
C6_Witness ==
  /\ out.done
  /\ Cardinality(Range(GivenBullets)) > 5
  /\ Len(GivenBullets) >= 5
  /\ Cardinality(Range(SubSeq(GivenBullets, 1, 5))) < 5
  /\ Len(out.lines) = 5

\* The occurrences of the text b that have an evidence entry: <<i, j>> when
\* the i-th provider has a recorded evidence sequence with an entry at the
\* place j of b among its bullets.
CitedOccurrences(b) ==
  {ij \in (1..Len(ProviderOrder)) \X (1..Len(GivenBullets)) :
     LET p == ProviderOrder[ij[1]]
     IN /\ ij[2] <= Len(arg.bullets[p])
        /\ arg.bullets[p][ij[2]] = b
        /\ arg.sources[p] # <<>>
        /\ ij[2] <= Len(arg.sources[p][1])}

\* The last of them, in provider order and then in bullet order.
LastOccurrence(occ) ==
  CHOOSE ij \in occ :
    \A o \in occ : o[1] < ij[1] \/ (o[1] = ij[1] /\ o[2] <= ij[2])

\* C7 (as claimed): a retained line carries a citation suffix if and only if
\* some provider with a recorded evidence sequence gave its text at a place
\* at which that sequence has an entry, and the citation is the entry of
\* the last such occurrence.
C7_CitationIffEvidence ==
  out.done =>
    \A k \in 1..Len(out.lines) :
      LET occ == CitedOccurrences(out.lines[k].text)
      IN /\ (out.lines[k].cit # <<>>) <=> (occ # {})
         /\ occ # {} =>
              LET last == LastOccurrence(occ)
              IN out.lines[k].cit
                   = <<arg.sources[ProviderOrder[last[1]]][1][last[2]]>>

\* The same for the texts that are not names of members of Object.prototype.
C7_CitationIffEvidenceOwnKeys ==
  out.done =>
    \A k \in 1..Len(out.lines) :
      out.lines[k].text # <<"c","o","n","s","t","r","u","c","t","o","r">> =>
        LET occ == CitedOccurrences(out.lines[k].text)
        IN /\ (out.lines[k].cit # <<>>) <=> (occ # {})
           /\ occ # {} =>
                LET last == LastOccurrence(occ)
                IN out.lines[k].cit
                     = <<arg.sources[ProviderOrder[last[1]]][1][last[2]]>>

\* C8: whatever the number of organic results and the order in which the
\* page fetches complete, performWebSearch returns, in rank order, the
\* records of those of the first 5 results whose fetch and extraction did
\* not fail: at most 5 records, a failing page dropped without removing or
\* moving another, and no result ranked after the 5th fetched or returned.
C8_RetrieverOutput ==
  /\ \A k \in DOMAIN fetchCalls : k > 5 => fetchCalls[k] = 0
  /\ (rstage = "done" /\ web.searchOk) =>
       LET okRanks == {k \in 1..web.n : k <= 5 /\ web.pages[k].ok}
       IN /\ Len(webSources) <= 5
          /\ Len(webSources) = Cardinality(okRanks)
          /\ \A i \in 1..Len(webSources) :
               \E k \in okRanks :
                 /\ Cardinality({j \in okRanks : j <= k}) = i
                 /\ webSources[i].url = <<"https://">> \o query \o <<"/", Digits[k]>>

\* The retriever returned four records for six results, the second page
\* having failed.
C8_Witness ==
  /\ rstage = "done"
  /\ web.searchOk
  /\ web.n = 6
  /\ ~web.pages[2].ok
  /\ Len(webSources) = 4

(* ------------------------------------------------------------------ *)
(* The file flow                                                        *)
(* ------------------------------------------------------------------ *)

\* The query the file flow is to search with, written out: the default
\* query for a blank question, the trimmed question otherwise.
ExpectedFileQuery ==
  IF BlankQuestion THEN <<"Describe the uploaded file.">> ELSE <<"q", "?">>

\* The ranks whose page the retriever fetched and parsed.
RetrievedRanks ==
  IF web.searchOk
  THEN {k \in 1..web.n : k <= 5 /\ web.pages[k].ok}
  ELSE {}

\* ws is the evidence of the web for the query q, in rank order.
IsEvidenceFor(ws, q) ==
  /\ Len(ws) = Cardinality(RetrievedRanks)
  /\ \A i \in 1..Len(ws) :
       \E k \in RetrievedRanks :
         /\ ws[i].url = <<"https://">> \o q \o <<"/", Digits[k]>>
         /\ Cardinality({j \in RetrievedRanks : j < k}) = i - 1

\* C11: with a file, with or without a question, the request never ends in
\* the validation error; the retriever runs once, with the question or, for
\* an empty question, with "Describe the uploaded file."; gemini alone is
\* invoked, once; results has exactly the key gemini and sources is the
\* evidence retrieved with that query.
C11_FileModeGeminiOnly ==
  file =>
    /\ response.status # 400
    /\ searchCalls <= 1
    /\ \A p \in Providers \ {"gemini"} : providerCalls[p] = 0
    /\ providerCalls["gemini"] <= 1
    /\ searchCalls = 1 => query = ExpectedFileQuery
    /\ pc = "Responded" =>
         /\ response.status = 200
         /\ searchCalls = 1
         /\ providerCalls["gemini"] = 1
         /\ KeysOf(response.results) = <<"gemini">>
         /\ IsEvidenceFor(response.sources, ExpectedFileQuery)

\* A response of the file flow to a request without a question, with
\* evidence.
C11_Witness ==
  /\ pc = "Responded"
  /\ file
  /\ rawQuestion = <<>>
  /\ Len(response.sources) >= 1

(* ------------------------------------------------------------------ *)
(* The normalizer                                                       *)
(* ------------------------------------------------------------------ *)

\* C12 (as claimed): cleanBullets applied, with the same max, to its own
\* output yields that output again.
C12_NormalizerIdempotent ==
  (arg.f = "cleanBullets" /\ arg.pass = 2) => out.text = arg.text

RECURSIVE KeptOf(_)
\* What is to be kept of a sequence of line samples, in order.
KeptOf(ss) == IF ss = <<>> THEN <<>> ELSE ss[1].kept \o KeptOf(Tail(ss))

\* The first n elements of a sequence.
FirstN(seq, n) == [i \in 1..(IF n < Len(seq) THEN n ELSE Len(seq)) |-> seq[i]]

\* The number of line breaks of a text.
LineBreaks(t) == Cardinality({i \in 1..Len(t) : t[i] = "\n"})

\* C13: the output of cleanBullets has at most max bullet lines, each is
\* the marker "- " followed by a text longer than 3 characters, and the
\* bullets are the first max surviving input lines in their original order.
C13_NormalizerOutput ==
  (arg.f = "cleanBullets" /\ arg.pass = 1) =>
    LET want == FirstN(KeptOf(arg.samples), arg.max)
    IN /\ Len(out.lines) <= arg.max
       /\ \A i \in 1..Len(out.lines) : Len(out.lines[i]) > 3
       /\ out.lines = want
       /\ out.text = Join([i \in 1..Len(want) |-> <<"-", " ">> \o want[i]])
       /\ out.text # <<>> => LineBreaks(out.text) + 1 = Len(out.lines)
       /\ out.text = <<>> <=> out.lines = <<>>

\* Three surviving lines, of which max = 2 keeps the first two.
C13_Witness ==
  /\ arg.f = "cleanBullets"
  /\ arg.pass = 1
  /\ arg.max = 2
  /\ Len(arg.samples) = 3
  /\ Len(KeptOf(arg.samples)) = 3
  /\ Len(out.lines) = 2

(* ------------------------------------------------------------------ *)
(* The evidence records                                                 *)
(* ------------------------------------------------------------------ *)

\* A value is available: it is neither missing nor the empty string.
Available(x) == x # <<"<undefined>">> /\ x # <<>>

\* The field f the extraction found on the page ranked k, if any.
Extracted(k, f) ==
  IF web.pages[k].article = <<>> THEN <<"<undefined>">>
  ELSE web.pages[k].article[1][f]

\* The ranks for which the retriever built a record.
RecordedRanks == {k \in DOMAIN extracted : extracted[k] # <<>>}

\* The title of every record is the extracted title when there is one, the
\* search result's title otherwise.
TitleExtractedFirst ==
  \A k \in RecordedRanks :
    extracted[k][1].title =
      IF Available(Extracted(k, "title")) THEN Extracted(k, "title")
      ELSE OrganicResult(query, k).title

\* C14 (as claimed): the date of every record is the extracted date when
\* there is one, otherwise the search result's date, otherwise "N/A"; its
\* title is the extracted title when there is one, otherwise the search
\* result's title.
C14_ExtractedDateFirst ==
  /\ TitleExtractedFirst
  /\ \A k \in RecordedRanks :
       extracted[k][1].date =
         IF Available(Extracted(k, "publishedTime"))
         THEN Extracted(k, "publishedTime")
         ELSE IF Available(OrganicResult(query, k).date)
         THEN OrganicResult(query, k).date
         ELSE <<"N/A">>

\* C14 (amended): the date of every record is the search result's date when
\* there is one, otherwise the extracted date, otherwise "N/A"; its title is
\* the extracted title when there is one, otherwise the search result's
\* title.
C14_SearchDateFirst ==
  /\ TitleExtractedFirst
  /\ \A k \in RecordedRanks :
       extracted[k][1].date =
         IF Available(OrganicResult(query, k).date)
         THEN OrganicResult(query, k).date
         ELSE IF Available(Extracted(k, "publishedTime"))
         THEN Extracted(k, "publishedTime")
         ELSE <<"N/A">>

\* The retriever returned records of four kinds: both dates known, only the
\* extracted date, only the search result's date, and neither.
C14_Witness ==
  /\ rstage = "done"
  /\ \E k1, k2, k3, k4 \in RecordedRanks :
       /\ Available(OrganicResult(query, k1).date)
       /\ Available(Extracted(k1, "publishedTime"))
       /\ ~Available(OrganicResult(query, k2).date)
       /\ Available(Extracted(k2, "publishedTime"))
       /\ Available(OrganicResult(query, k3).date)
       /\ ~Available(Extracted(k3, "publishedTime"))
       /\ ~Available(OrganicResult(query, k4).date)
       /\ ~Available(Extracted(k4, "publishedTime"))
       /\ ~Available(Extracted(k4, "title"))

(* ------------------------------------------------------------------ *)
(* Independence of the provider invocations                             *)
(* ------------------------------------------------------------------ *)

\* The exchange of provider r, whenever it is in flight, returns or fails.
Returns(r) == []<>(call[r] # "inflight")

\* C15 (as claimed): in text mode the completion of a provider's
\* invocation never depends on another's: whichever provider p never
\* returns, every other provider q, provided the exchanges other than p's
\* return, is invoked and completes.
C15_ProvidersIndependent ==
  \A p \in Providers :
    (TextMode /\ \A r \in Providers \ {p} : Returns(r))
      => <>(\A q \in Providers \ {p} : call[q] = "done")

\* C15 (amended): in text mode openai, mistral and claude are invoked
\* together and complete independently of one another and of gemini:
\* whichever provider p never returns, each of the three other than p
\* completes, provided the other exchanges return. gemini is invoked only
\* once the three have completed.
C15_FirstWaveIndependent ==
  /\ \A p \in Providers :
       (TextMode /\ \A r \in Providers \ {p} : Returns(r))
         => <>(\A q \in {"openai", "mistral", "claude"} \ {p} :
                 call[q] = "done")
  /\ []((~file /\ call["gemini"] # "idle") =>
         \A q \in {"openai", "mistral", "claude"} : call[q] = "done")

\* mistral and claude have completed while openai is still in flight, and
\* gemini has not been invoked.
C15_Witness ==
  /\ TextMode
  /\ call["openai"] = "inflight"
  /\ call["mistral"] = "done"
  /\ call["claude"] = "done"
  /\ call["gemini"] = "idle"

(* ------------------------------------------------------------------ *)
(* The order of a request                                               *)
(* ------------------------------------------------------------------ *)

\* The providers a request invokes.
RequestProviders == IF file THEN {"gemini"} ELSE Providers

\* The invocation of p has completed with a normalized text (of the raw
\* completion or, in the file flow, of "No response from Gemini") or with
\* the fallback string.
Completed(p) ==
  /\ call[p] = "done"
  /\ \/ results[p] = FallbackText(p)
     \/ reply[p].kind = "ok" /\ reply[p].text # <<>>
          /\ results[p] = NormalizedText(reply[p].text)
     \/ reply[p].kind = "ok" /\ reply[p].text = <<>> /\ ~file
          /\ results[p] = <<>>
     \/ file /\ results[p] = NoResponseBullet

\* C16: no provider is invoked before the retriever has returned; the
\* conclusion is built, and the response sent, only after every provider
\* invocation of the request has completed with a normalized text or a
\* fallback, never while a provider call is in flight.
C16_RequestOrder ==
  /\ [](\A p \in Providers :
          (call[p] # "idle" \/ providerCalls[p] > 0) =>
            /\ rstage = "done"
            /\ pending = {}
            /\ pc \notin {"Idle", "Retrieving"})
  /\ []((pc \in {"Aggregating", "Responded"} /\ response.status # 400) =>
          /\ \A p \in RequestProviders : Completed(p)
          /\ \A p \in Providers : call[p] # "inflight")
  /\ [][(\/ conclusion' # conclusion
          \/ pc' = "Aggregating"
          \/ (responses' # responses /\ response'.status # 400))
         => (\A p \in RequestProviders : Completed(p))]_vars

\* A response of the text flow, sent after the four calls completed, one of
\* them by a failure, with evidence.
C16_Witness ==
  /\ pc = "Responded"
  /\ TextMode
  /\ Len(webSources) >= 1
  /\ reply["mistral"].kind = "non2xx"
  /\ reply["gemini"].kind = "ok"
  /\ \A p \in Providers : call[p] = "done"

(* ------------------------------------------------------------------ *)
(* Independence of the interleaving                                     *)
(* ------------------------------------------------------------------ *)

\* What the request answers when every concurrent call is run to its end
\* one after the other, pages by rank and providers in the order of the
\* results object: the evidence, ...
SequentialSources ==
  IF web.searchOk
  THEN FilterBoolean([k \in 1..(IF web.n < 5 THEN web.n ELSE 5) |-> Extract(k)])
  ELSE <<>>

\* ... the entry of each provider, ...
SequentialResults ==
  [i \in 1..Len(ResultKeys) |->
     <<ResultKeys[i],
       safeCall(Built(reply[ResultKeys[i]]), Fallback(ResultKeys[i]), 8)>>]

\* ... the sources object ...
SequentialSourcesMap ==
  [p \in Providers |->
     IF p \in RequestProviders /\ Built(reply[p]).setsSources
     THEN <<SequentialSources>> ELSE <<>>]

\* ... and the conclusion.
SequentialConclusion == buildConclusion(SequentialResults, SequentialSourcesMap)

\* C17: for fixed search results, page outcomes and provider outcomes the
\* response is the same whatever the order in which the page fetches and the
\* provider calls complete: its results, its conclusion (lines, order and
\* citations) and its sources are those of the sequential run.
C17_InterleavingIndependent ==
  (pc = "Responded" /\ response.status = 200) =>
    /\ response.results = SequentialResults
    /\ response.conclusion = SequentialConclusion
    /\ response.sources = SequentialSources

\* A response of the text flow with two evidence records, two providers
\* that share a bullet and one that failed after the evidence was recorded
\* for it.
C17_Witness ==
  /\ pc = "Responded"
  /\ TextMode
  /\ Len(response.sources) = 2
  /\ reply["openai"] = Ok(RawA)
  /\ reply["mistral"].kind = "neterr"
  /\ reply["claude"].kind = "nopath"
  /\ reply["gemini"] = Ok(RawB)

(* ------------------------------------------------------------------ *)
(* No retries                                                           *)
(* ------------------------------------------------------------------ *)

\* C18: in a request that passes validation the search request is issued
\* exactly once, each of the first five result pages is fetched at most
\* once and no other page at all, and each provider is called at most once:
\* exactly once each of the four in the text flow, whether the call
\* succeeds or fails.
C18_NoRetries ==
  /\ searchCalls <= 1
  /\ \A k \in DOMAIN fetchCalls :
       /\ fetchCalls[k] <= 1
       /\ k > 5 => fetchCalls[k] = 0
  /\ \A p \in Providers : providerCalls[p] <= 1
  /\ (pc \notin {"Idle"} /\ response.status # 400) => searchCalls = 1
  /\ (pc \in {"Aggregating", "Responded"} /\ TextMode) =>
       \A p \in Providers : providerCalls[p] = 1
  /\ (pc = "Responded" /\ response.status = 200 /\ web.searchOk) =>
       \A k \in DOMAIN fetchCalls : k <= 5 => fetchCalls[k] = 1

\* A response of the text flow after a page fetch failed and the four
\* provider calls failed.
C18_Witness ==
  /\ pc = "Responded"
  /\ TextMode
  /\ web.searchOk
  /\ web.n = 2
  /\ ~web.pages[1].ok
  /\ \A p \in Providers : reply[p].kind \in {"neterr", "non2xx"}

(* ------------------------------------------------------------------ *)
(* Evidence and failed providers                                        *)
(* ------------------------------------------------------------------ *)

\* No line of the conclusion is a fallback string followed by a citation.
NoFallbackCited ==
  (pc = "Responded" /\ response.status = 200) =>
    \A p \in Providers :
      \A l \in Range(LinesOfConclusion(response.conclusion)) :
        IsLineOf(l, FallbackText(p)) => Len(l) = Len(FallbackText(p)) + 2

\* C19 (as claimed): the sources object has an entry for a provider if and
\* only if that provider's result is a normalized bullet text rather than
\* its fallback string, so that no fallback string carries a citation in
\* the conclusion.
C19_EvidenceOnlyOnSuccess ==
  /\ \A p \in Providers :
       call[p] = "done" =>
         (sources[p] # <<>> <=> results[p] # FallbackText(p))
  /\ NoFallbackCited

====
